---- MODULE Spec2Model ----
(***************************************************************************)
(* Model of discord-message-deleter (src/src/index.ts): one sequential     *)
(* search/delete loop of class DiscordMessageDeleter, driven by run().     *)
(*                                                                         *)
(* A step of the model is one run of JavaScript between two macrotask      *)
(* suspension points (a timer set by wait(), or a fetch() in flight).      *)
(* Time is in milliseconds.  Synchronous code takes no time; time passes   *)
(* while a timer runs or a request is in flight.  Failures of the local    *)
(* file system (fs.appendFileSync throwing) are outside the model.         *)
(***************************************************************************)
EXTENDS Integers, Sequences, FiniteSets, TLC

VARIABLES
    env,              \* names of the environment variables that are set
    pc,               \* where the single thread of control is suspended
    call,             \* the API call in progress: fetchMessages() or deleteMessage(id)
    stats,            \* this.stats (startTime left out)
    beforeMessageId,  \* this.beforeMessageId, the cursor
    lastApiCall,      \* this.lastApiCall
    now,              \* Date.now()
    waitUntil,        \* expiry time of the pending setTimeout
    rest,             \* messages of the current page the for loops have yet to delete
    backup,           \* message ids of the records appended to messagesLogFile
    filesInit,        \* the constructor has written the log and backup headers
    errorLog,         \* number of entries written to errorLogFile
    summaries,        \* number of times printSummary() has run
    fatal,            \* an error has propagated out of deleteMessages()
    interrupted,      \* the SIGINT handler has run
    exitCode,         \* exit status of the process once pc = "exited"
    nReq,             \* number of HTTP requests issued
    req,              \* the last HTTP request issued
    resp,             \* the last HTTP response (or transport failure) received
    att,              \* the message under deletion and the counters as they were when the loop reached it
    deleted,          \* ids of the messages whose DELETE was answered with success, in order
    printed,          \* the figures the last printSummary() reported
    head              \* what the while loop read when its current iteration began

vars == <<env, pc, call, stats, beforeMessageId, lastApiCall, now, waitUntil, rest,
          backup, filesInit, errorLog, summaries, fatal, interrupted, exitCode, nReq, req,
          resp, att, deleted, printed, head>>

-----------------------------------------------------------------------------
(* Bounds of the model *)

MaxCalls == 4      \* HTTP requests issued in one run
MaxPage == 2       \* messages in one search page
MaxTotal == 2      \* largest total_results a search reports

(* Program constants *)

rateLimit == 1000
delayDelete == 1000
delaySearch == 1500

-----------------------------------------------------------------------------
(* Values *)

Undefined == "undefined"
Me == "me"
Other == "other"

Required == {"DISCORD_AUTH_TOKEN", "DISCORD_AUTHOR_ID", "DISCORD_CHANNEL_ID"}
Optional == {"DISCORD_BEFORE_MESSAGE_ID"}

\* Environments: complete, or with one required variable missing, each with
\* and without the optional starting cursor.
Envs == {Required \cup o : o \in SUBSET Optional}
          \cup {(Required \ {v}) : v \in Required}

\* "No message id": the value of an unset beforeMessageId (falsy at line 158).
NoId == 0

Msg(i, a, t, h) == [id |-> i, author |-> a, type |-> t, hit |-> h]

\* The messages a search page is built from: two deletable messages, a
\* system message (type 3), a message of another author, and a context
\* message (hit = false).
\* Ids are snowflakes: a larger id is a newer message.
Messages == { Msg(1, Me, 0, TRUE), Msg(2, Me, 0, TRUE), Msg(3, Me, 3, TRUE),
              Msg(4, Other, 0, TRUE), Msg(5, Me, 0, FALSE) }

Ids == {m.id : m \in Messages}

\* The id DISCORD_BEFORE_MESSAGE_ID holds when it is set: newer than every message.
StartCursor == Cardinality(Messages) + 1

\* Durations a 202 / 429 body carries as retry_after: below and above rateLimit.
RetryAfters == {500, 2000}

\* Time a request spends in flight.
Latencies == {400}

\* Outcomes of fetch(): HTTP status, or 0 when fetch() rejects (transport failure).
SearchStatuses == {200, 202, 429, 403, 0}
DeleteStatuses == {204, 202, 429, 403, 0}

\* Mutant of ok: only 200 is taken for success.
okOnly200(status) == status = 200

\* response.ok (lines 181, 211).
ok(status) == status \in 200..299

NoCall == [kind |-> "none", id |-> NoId]
SearchCall == [kind |-> "search", id |-> NoId]
DeleteCall(id) == [kind |-> "delete", id |-> id]

NoReq == [kind |-> "none", arg |-> NoId, at |-> 0]
NoResp == [status |-> -1, retry_after |-> 0, at |-> 0, to |-> NoReq,
           total |-> 0, hits |-> 0]
NoAtt == [id |-> NoId, del |-> 0, fail |-> 0, thr |-> 0, bak |-> 0, nreq |-> 0]
NoSummary == [deleted |-> -1, failed |-> -1, throttled |-> -1, throttledTime |-> -1]
NoHead == [iteration |-> 0, delCount |-> 0, grandTotal |-> 0, cursor |-> NoId]

-----------------------------------------------------------------------------
(* Search pages: result.messages is a sequence of groups of messages *)

\* The sequences of n different elements of S: a page lists a message once.
RECURSIVE SeqsOfLen(_, _)
SeqsOfLen(S, n) ==
    IF n = 0 THEN {<<>>}
    ELSE UNION { {Append(q, x) : x \in S \ {q[i] : i \in 1..Len(q)}} :
                 q \in SeqsOfLen(S, n - 1) }

\* The groups of the flat sequence f, a group ending after position i iff i \in ends.
RECURSIVE Chunk(_, _, _, _)
Chunk(f, ends, i, acc) ==
    IF i > Len(f) THEN (IF acc = <<>> THEN <<>> ELSE <<acc>>)
    ELSE IF i \in ends THEN <<Append(acc, f[i])>> \o Chunk(f, ends, i + 1, <<>>)
    ELSE Chunk(f, ends, i + 1, Append(acc, f[i]))

\* Pages of n messages: all in one group, or one group per message.
PagesOfLen(n) ==
    { Chunk(f, ends, 1, <<>>) : f \in SeqsOfLen(Messages, n), ends \in {{}, 1..n} }

Pages == UNION { PagesOfLen(n) : n \in 0..MaxPage }

\* The order in which the two nested for loops (lines 233-234) visit a page.
RECURSIVE Flatten(_)
Flatten(groups) ==
    IF groups = <<>> THEN <<>> ELSE Head(groups) \o Flatten(Tail(groups))

-----------------------------------------------------------------------------
(* Pure parts of the code *)

\* this.authorId as the constructor receives it from process.env (line 295).
AuthorId == IF "DISCORD_AUTHOR_ID" \in env THEN Me ELSE Undefined

\* Mutant of Eligible: the type check of line 235 is missing.
EligibleAnyType(m) == m.author = AuthorId /\ m.hit

\* Lines 235-237: the message is backed up and deleted.
Eligible(m) == m.type # 3 /\ m.author = AuthorId /\ m.hit

\* The for loops pass over every message that is not eligible (lines 235,
\* 237): what they act on is the eligible messages, in page order.
RECURSIVE SkipIneligible(_)
SkipIneligible(msgs) ==
    IF msgs = <<>> THEN <<>>
    ELSE IF Eligible(Head(msgs)) THEN <<Head(msgs)>> \o SkipIneligible(Tail(msgs))
    ELSE SkipIneligible(Tail(msgs))

\* Mutant of saveMessageContent: nothing is written.
saveMessageContentLost(log, m) == log

\* Mutant of saveMessageContent: the record is written twice.
saveMessageContentTwice(log, m) == Append(Append(log, m.id), m.id)

\* Lines 107-125: one record appended to the backup file.
saveMessageContent(log, m) == Append(log, m.id)

\* Mutant of Latch: every search result sets grandTotal.
LatchAlways(s, total) == [s EXCEPT !.grandTotal = total]

\* Mutant of Latch: the test of line 226 is inverted, nothing is latched.
LatchNever(s, total) ==
    IF s.grandTotal # 0 THEN [s EXCEPT !.grandTotal = total] ELSE s

\* Lines 226-229: grandTotal is latched while it is still 0.
Latch(s, total) ==
    IF s.grandTotal = 0 THEN [s EXCEPT !.grandTotal = total] ELSE s

\* Mutant of On429: the event is counted, the wait is not accumulated.
On429TimeLost(s, R) == [s EXCEPT !.throttledCount = @ + 1]

\* Lines 174-175 and 204-205: a 429 is counted as a throttle event.
On429(s, R) ==
    [s EXCEPT !.throttledCount = @ + 1, !.throttledTotalTime = @ + R]

\* Mutant of On202: the 202 is counted as a throttle event.
On202Throttled(s, R) ==
    [s EXCEPT !.throttledCount = @ + 1, !.throttledTotalTime = @ + R]

\* Lines 165-170: a 202 changes no counter.
On202(s, R) == s

\* Mutant of Advance: the cursor is only ever moved to an older message.
AdvanceToOlder(cursor, id) ==
    IF cursor = NoId \/ id < cursor THEN id ELSE cursor

\* Line 215: the cursor becomes the id of the message just deleted.
Advance(cursor, id) == id

\* Mutant of OnDeleted: the deletion is not counted.
OnDeletedLost(s) == s

\* Line 246: a successful deletion is counted.
OnDeleted(s) == [s EXCEPT !.delCount = @ + 1]

\* Mutant of OnDeleteFailed: the failure is counted as a deletion as well.
OnDeleteFailedAsDeleted(s) == [s EXCEPT !.failCount = @ + 1, !.delCount = @ + 1]

\* Line 251: a failed deletion is counted.
OnDeleteFailed(s) == [s EXCEPT !.failCount = @ + 1]

\* Mutant of Finished: the loop goes on until more were deleted than reported.
FinishedStrict(s) == s.delCount > s.grandTotal

\* Line 259: the loop ends once as many messages were deleted as first reported.
Finished(s) == s.delCount >= s.grandTotal

\* Mutant of GateWait: the wait is the time elapsed, not the time remaining.
GateWaitElapsed(t) ==
    IF t - lastApiCall < rateLimit THEN t - lastApiCall ELSE 0

\* Lines 133-136: how long enforceRateLimit waits when called at time t.
GateWait(t) ==
    IF t - lastApiCall < rateLimit THEN rateLimit - (t - lastApiCall) ELSE 0

\* Mutant of printSummary: the counters are those of the start of the run.
printSummaryStale(s) ==
    [deleted |-> 0, failed |-> 0, throttled |-> 0, throttledTime |-> 0]

\* Lines 279-281: the counters printSummary() reports.
printSummary(s) ==
    [deleted |-> s.delCount, failed |-> s.failCount,
     throttled |-> s.throttledCount, throttledTime |-> s.throttledTotalTime]

\* Line 223: a new iteration of the while loop; what the loop's decisions
\* depend on (lines 226, 259 and the max_id of line 159) as the iteration begins.
Iteration(h, s, cursor) ==
    [iteration |-> h.iteration + 1, delCount |-> s.delCount,
     grandTotal |-> s.grandTotal, cursor |-> cursor]

\* Lines 308-310: run().catch() swallows the error, so the process ends with
\* the default status whether or not an error propagated; line 302:
\* process.exit() without an argument ends it with the default status too.
ExitStatus(failed) == 0

-----------------------------------------------------------------------------
(* Steps shared by several handlers (they assign the primed variables) *)

\* Mutant of Issue: the search is sent without max_id.
IssueWithoutCursor(c, t, cursor) ==
    /\ nReq < MaxCalls
    /\ nReq' = nReq + 1
    /\ req' = [kind |-> c.kind,
               arg |-> IF c.kind = "search" THEN NoId ELSE c.id,
               at |-> t]
    /\ pc' = "fetch"

\* fetch() at line 163 (search, with the cursor as max_id) or 197 (DELETE).
Issue(c, t, cursor) ==
    /\ nReq < MaxCalls
    /\ nReq' = nReq + 1
    /\ req' = [kind |-> c.kind,
               arg |-> IF c.kind = "search" THEN cursor ELSE c.id,
               at |-> t]
    /\ pc' = "fetch"

\* fetchMessages() / deleteMessage(id) up to their first suspension:
\* enforceRateLimit (lines 131-141), then the request.
Call(c, t, cursor) ==
    /\ call' = c
    /\ IF GateWait(t) > 0
       THEN /\ pc' = "gate"
            /\ waitUntil' = t + GateWait(t)
            /\ UNCHANGED <<lastApiCall, nReq, req>>
       ELSE /\ lastApiCall' = t
            /\ UNCHANGED waitUntil
            /\ Issue(c, t, cursor)

\* The for loops of lines 233-255 from the messages msgs not yet visited, at
\* time t with counters s, up to the next suspension: the next eligible
\* message is backed up and its deletion is called; with none left the loops
\* end and the inter-search delay starts (line 257).
NextMessage(msgs, t, s, cursor) ==
    LET r == SkipIneligible(msgs) IN
    IF r = <<>>
    THEN /\ pc' = "delaySearch"
         /\ waitUntil' = t + delaySearch
         /\ rest' = <<>>
         /\ call' = NoCall
         /\ UNCHANGED <<lastApiCall, nReq, req, backup, att>>
    ELSE /\ rest' = Tail(r)
         /\ att' = [id |-> Head(r).id, del |-> s.delCount, fail |-> s.failCount,
                    thr |-> s.throttledCount, bak |-> Len(backup), nreq |-> nReq]
         /\ backup' = saveMessageContent(backup, Head(r))
         /\ Call(DeleteCall(Head(r).id), t, cursor)

\* Mutant of Leave: the catch block of line 263 does not rethrow.
LeaveSwallowed(failed) ==
    /\ summaries' = summaries + 1
    /\ printed' = printSummary(stats)
    /\ fatal' = FALSE
    /\ pc' = "draining"
    /\ call' = NoCall

\* Leaving deleteMessages(): printSummary() (line 262, or 266 before the
\* rethrow); nothing is left on the event loop.
Leave(failed) ==
    /\ summaries' = summaries + 1
    /\ printed' = printSummary(stats)
    /\ fatal' = failed
    /\ pc' = "draining"
    /\ call' = NoCall

\* What fetch() resolves with (or 0 for its rejection), in answer to req.
Received(status, R, t) ==
    [status |-> status, retry_after |-> R, at |-> t, to |-> req, total |-> 0, hits |-> 0]

\* The body of a successful search (line 185): total_results, and how many
\* messages of result.messages pass the filter of lines 235-237.
Found(status, t, total, todo) ==
    [Received(status, 0, t) EXCEPT !.total = total, !.hits = Len(todo)]

-----------------------------------------------------------------------------
Init ==
    /\ env \in Envs
    /\ pc = "init"
    /\ call = NoCall
    /\ stats = [delCount |-> 0, failCount |-> 0, throttledCount |-> 0,
                throttledTotalTime |-> 0, grandTotal |-> 0]
    /\ beforeMessageId = NoId
    /\ lastApiCall = 0
    /\ now = rateLimit          \* Date.now() is far past the epoch
    /\ waitUntil = 0
    /\ rest = <<>>
    /\ backup = <<>>
    /\ filesInit = FALSE
    /\ errorLog = 0
    /\ summaries = 0
    /\ fatal = FALSE
    /\ interrupted = FALSE
    /\ exitCode = -1
    /\ nReq = 0
    /\ req = NoReq
    /\ resp = NoResp
    /\ att = NoAtt
    /\ deleted = <<>>
    /\ printed = NoSummary
    /\ head = NoHead

\* run(), lines 291-305: the constructor (lines 51-87), the SIGINT handler,
\* and deleteMessages() up to the first request.
Start ==
    /\ pc = "init"
    /\ filesInit' = TRUE
    /\ beforeMessageId' =
         IF "DISCORD_BEFORE_MESSAGE_ID" \in env THEN StartCursor ELSE NoId
    /\ head' = Iteration(head, stats, beforeMessageId')
    /\ Call(SearchCall, now, beforeMessageId')
    /\ UNCHANGED <<env, deleted, printed, interrupted, stats, now, rest, backup, errorLog, summaries, fatal,
                   exitCode, resp, att>>

\* enforceRateLimit's wait is over (lines 137-140); the request is issued.
GateElapsed ==
    /\ pc = "gate"
    /\ now' = waitUntil
    /\ lastApiCall' = now'
    /\ Issue(call, now', beforeMessageId)
    /\ UNCHANGED <<env, deleted, printed, head, interrupted, call, stats, beforeMessageId, waitUntil, rest, backup,
                   filesInit, errorLog, summaries, fatal, exitCode, resp, att>>

\* Lines 165-170: the search answers 202.
Search202 ==
    /\ pc = "fetch" /\ call.kind = "search"
    /\ \E lat \in Latencies, R \in RetryAfters :
         /\ now' = now + lat
         /\ resp' = Received(202, R, now')
         /\ stats' = On202(stats, R)
         /\ pc' = "retry"
         /\ waitUntil' = now' + R
    /\ UNCHANGED <<env, deleted, printed, head, interrupted, call, beforeMessageId, lastApiCall, rest, backup, filesInit,
                   errorLog, summaries, fatal, exitCode, nReq, req, att>>

\* Lines 172-179: the search answers 429.
Search429 ==
    /\ pc = "fetch" /\ call.kind = "search"
    /\ \E lat \in Latencies, R \in RetryAfters :
         /\ now' = now + lat
         /\ resp' = Received(429, R, now')
         /\ stats' = On429(stats, R)
         /\ pc' = "retry"
         /\ waitUntil' = now' + R
    /\ UNCHANGED <<env, deleted, printed, head, interrupted, call, beforeMessageId, lastApiCall, rest, backup, filesInit,
                   errorLog, summaries, fatal, exitCode, nReq, req, att>>

\* Lines 181-183 (or fetch() rejecting), caught at lines 263-268.
SearchError ==
    /\ pc = "fetch" /\ call.kind = "search"
    /\ \E lat \in Latencies, status \in SearchStatuses \ {202, 429} :
         /\ ~ok(status)
         /\ now' = now + lat
         /\ resp' = Received(status, 0, now')
    /\ errorLog' = errorLog + 1
    /\ Leave(TRUE)
    /\ UNCHANGED <<env, deleted, head, interrupted, stats, beforeMessageId, lastApiCall, waitUntil, rest, backup,
                   filesInit, exitCode, nReq, req, att>>

\* Lines 185, 226-231: the search succeeds and the page is walked.
SearchOk ==
    /\ pc = "fetch" /\ call.kind = "search"
    /\ \E lat \in Latencies, status \in SearchStatuses \ {202, 429},
          total \in 0..MaxTotal, todo \in {SkipIneligible(Flatten(p)) : p \in Pages} :
         /\ ok(status)
         /\ now' = now + lat
         /\ resp' = Found(status, now', total, todo)
         /\ stats' = Latch(stats, total)
         /\ IF total = 0
            THEN /\ Leave(FALSE)
                 /\ UNCHANGED <<lastApiCall, waitUntil, rest, backup, nReq, req, att>>
            ELSE /\ NextMessage(todo, now', stats', beforeMessageId)
                 /\ UNCHANGED <<summaries, fatal, printed>>
    /\ UNCHANGED <<env, deleted, head, interrupted, beforeMessageId, filesInit, errorLog, exitCode>>

\* The retry-after wait of lines 168, 177 or 207 is over: the same call again.
RetryElapsed ==
    /\ pc = "retry"
    /\ now' = waitUntil
    /\ Call(call, now', beforeMessageId)
    /\ UNCHANGED <<env, deleted, printed, head, interrupted, stats, beforeMessageId, rest, backup, filesInit, errorLog,
                   summaries, fatal, exitCode, resp, att>>

\* Lines 202-209: the deletion answers 429.
Delete429 ==
    /\ pc = "fetch" /\ call.kind = "delete"
    /\ \E lat \in Latencies, R \in RetryAfters :
         /\ now' = now + lat
         /\ resp' = Received(429, R, now')
         /\ stats' = On429(stats, R)
         /\ pc' = "retry"
         /\ waitUntil' = now' + R
    /\ UNCHANGED <<env, deleted, printed, head, interrupted, call, beforeMessageId, lastApiCall, rest, backup, filesInit,
                   errorLog, summaries, fatal, exitCode, nReq, req, att>>

\* Lines 211-213 (or fetch() rejecting), caught at lines 248-252; the loops go on.
DeleteError ==
    /\ pc = "fetch" /\ call.kind = "delete"
    /\ \E lat \in Latencies, status \in DeleteStatuses \ {429} :
         /\ ~ok(status)
         /\ now' = now + lat
         /\ resp' = Received(status, 0, now')
         /\ errorLog' = errorLog + 1
         /\ stats' = OnDeleteFailed(stats)
         /\ NextMessage(rest, now', stats', beforeMessageId)
    /\ UNCHANGED <<env, deleted, printed, head, interrupted, beforeMessageId, filesInit, summaries, fatal, exitCode>>

\* Lines 215-216 and 246-247: the deletion succeeded.
DeleteOk ==
    /\ pc = "fetch" /\ call.kind = "delete"
    /\ \E lat \in Latencies, status \in DeleteStatuses \ {429} :
         /\ ok(status)
         /\ now' = now + lat
         /\ resp' = Received(status, 0, now')
         /\ beforeMessageId' = Advance(beforeMessageId, call.id)
         /\ deleted' = Append(deleted, call.id)
         /\ stats' = OnDeleted(stats)
         /\ pc' = "delayDelete"
         /\ waitUntil' = now' + delayDelete
    /\ UNCHANGED <<env, printed, head, interrupted, call, lastApiCall, rest, backup, filesInit, errorLog,
                   summaries, fatal, exitCode, nReq, req, att>>

\* The inter-delete delay (line 247) is over; the loops go on.
DeleteDelayElapsed ==
    /\ pc = "delayDelete"
    /\ now' = waitUntil
    /\ NextMessage(rest, now', stats, beforeMessageId)
    /\ UNCHANGED <<env, deleted, printed, head, interrupted, stats, beforeMessageId, filesInit, errorLog, summaries,
                   fatal, exitCode, resp>>

\* The inter-search delay (line 257) is over: line 259, then the next search.
SearchDelayElapsed ==
    /\ pc = "delaySearch"
    /\ now' = waitUntil
    /\ IF Finished(stats)
       THEN /\ Leave(FALSE)
            /\ UNCHANGED <<lastApiCall, waitUntil, nReq, req, head>>
       ELSE /\ head' = Iteration(head, stats, beforeMessageId)
            /\ Call(SearchCall, now', beforeMessageId)
            /\ UNCHANGED <<summaries, fatal, printed>>
    /\ UNCHANGED <<env, deleted, interrupted, stats, beforeMessageId, rest, backup, filesInit, errorLog,
                   exitCode, resp, att>>

\* Lines 299-303: SIGINT arrives while the process is alive.
Interrupt ==
    /\ pc \notin {"init", "exited"}
    /\ summaries' = summaries + 1
    /\ printed' = printSummary(stats)
    /\ exitCode' = ExitStatus(fatal)
    /\ interrupted' = TRUE
    /\ pc' = "exited"
    /\ UNCHANGED <<env, deleted, head, call, stats, beforeMessageId, lastApiCall, now, waitUntil,
                   rest, backup, filesInit, errorLog, fatal, nReq, req, resp, att>>

\* Lines 305-310: run() has settled and the event loop is empty: the process ends.
Exit ==
    /\ pc = "draining"
    /\ exitCode' = ExitStatus(fatal)
    /\ pc' = "exited"
    /\ UNCHANGED <<env, deleted, printed, head, interrupted, call, stats, beforeMessageId, lastApiCall, now, waitUntil,
                   rest, backup, filesInit, errorLog, summaries, fatal, nReq, req,
                   resp, att>>

Next ==
    \/ Start
    \/ GateElapsed
    \/ Search202
    \/ Search429
    \/ SearchError
    \/ SearchOk
    \/ RetryElapsed
    \/ Delete429
    \/ DeleteError
    \/ DeleteOk
    \/ DeleteDelayElapsed
    \/ SearchDelayElapsed
    \/ Interrupt
    \/ Exit

Spec == Init /\ [][Next]_vars

-----------------------------------------------------------------------------
(* Properties *)

Range(q) == {q[i] : i \in 1..Len(q)}

MsgOf(id) == CHOOSE m \in Messages : m.id = id

\* A response (or transport failure) is received in this step.
Responded == resp' # resp

\* A request is issued in this step.
Issued == nReq' = nReq + 1

\* C1: a backup record is written, or a DELETE issued, only for a message
\* whose type is not 3, whose author is the configured author and whose hit
\* flag is true.
C1_OnlyFilteredMessages ==
    LET passes(m) == m.type # 3 /\ m.author = AuthorId /\ m.hit = TRUE IN
    /\ \A i \in 1..Len(backup) : passes(MsgOf(backup[i]))
    /\ req.kind = "delete" => passes(MsgOf(req.arg))

\* A message has been backed up and its DELETE issued.
C1_Witness ==
    /\ req.kind = "delete"
    /\ req.arg \in Range(backup)
    /\ pc = "fetch"

\* C2: every DELETE request, first attempt or retry, is for a message whose
\* backup record is in the backup log, and the record stays there when the
\* deletion fails.
C2_BackupBeforeDelete ==
    /\ req.kind = "delete" => req.arg \in Range(backup)
    /\ call.kind = "delete" => call.id \in Range(backup)

\* A deletion has failed and the record of the message is in the backup log.
C2_Witness ==
    /\ resp.to.kind = "delete"
    /\ resp.status = 403
    /\ stats.failCount = 1
    /\ resp.to.arg \in Range(backup)

\* C3 as stated: no message id is backed up twice in one run.
C3_NoIdBackedUpTwice ==
    \A i, j \in 1..Len(backup) : backup[i] = backup[j] => i = j

\* C3 as amended: each time the loop reaches an eligible message it appends
\* exactly one record for it, and no other step (a 429, a retry, a failure, a
\* success) appends or removes a record.
C3_OneRecordPerConsideration ==
    [][ /\ att' # att => backup' = Append(backup, att'.id)
        /\ att' = att => backup' = backup ]_vars

\* A message whose deletion failed was returned by a later search and
\* backed up a second time.
C3_Witness ==
    /\ Len(backup) = 2
    /\ backup[1] = backup[2]
    /\ stats.failCount = 1
    /\ nReq = 4

\* A deletion fails in this step with an error that is not retried.
DeleteFails ==
    /\ Responded
    /\ resp'.to.kind = "delete"
    /\ resp'.status \notin (200..299) \cup {429}

\* C4: a deletion failing with a non-retryable error adds exactly 1 to the
\* failed count, leaves the deleted count and the cursor alone, does not end
\* the run, and the loop goes on with the next message of the same page.
C4_DeleteFailureIsLocal ==
    [][ DeleteFails =>
          /\ stats'.failCount = stats.failCount + 1
          /\ stats'.delCount = stats.delCount
          /\ beforeMessageId' = beforeMessageId
          /\ fatal' = FALSE /\ summaries' = summaries
          /\ pc' \notin {"draining", "exited"}
          /\ IF rest # <<>>
             THEN /\ call' = DeleteCall(Head(rest).id)
                  /\ rest' = Tail(rest)
                  /\ pc' \in {"gate", "fetch"}
             ELSE pc' = "delaySearch" ]_vars

\* After a failed deletion the next message of the page is under deletion.
C4_Witness ==
    /\ resp.to.kind = "delete"
    /\ resp.status = 403
    /\ call.kind = "delete"
    /\ call.id # resp.to.arg
    /\ stats.failCount = 1
    /\ stats.delCount = 0

\* A search fails in this step with an error that is not retried.
SearchFails ==
    /\ Responded
    /\ resp'.to.kind = "search"
    /\ resp'.status \notin (200..299) \cup {429}

\* C5: a search failing with a non-retryable error is written to the error
\* log, the summary is emitted and the error is rethrown; from then on no
\* request is issued; and nothing but a failed search ends the run this way.
C5_SearchFailureIsFatal ==
    [][ /\ SearchFails =>
             /\ errorLog' = errorLog + 1
             /\ summaries' = summaries + 1
             /\ fatal' = TRUE
        /\ fatal => fatal' /\ nReq' = nReq /\ req' = req
        /\ fatal' =>
             /\ resp'.to.kind = "search"
             /\ resp'.status \notin (200..299) \cup {429, 202} ]_vars

\* A search failed on a transport failure after an earlier deletion, and the
\* run has ended with the error rethrown.
C5_Witness ==
    /\ fatal
    /\ resp.status = 0
    /\ summaries = 1
    /\ errorLog = 1
    /\ stats.delCount = 1
    /\ pc = "exited"

\* C6 as stated: the process ends with status 0 after a normal run and
\* after an interruption, and with a non-zero status after an error has
\* propagated out of deleteMessages() (stated for a complete configuration).
C6_ExitStatus ==
    pc = "exited" /\ Required \subseteq env =>
        IF interrupted THEN exitCode = 0
        ELSE IF fatal THEN exitCode # 0
        ELSE exitCode = 0

\* C7 as stated: with a required environment variable missing no session
\* starts: no log or backup file is initialised and no request is issued.
C7_ConfigValidated ==
    ~(Required \subseteq env) => ~filesInit /\ nReq = 0

\* A 429 is received in this step.
Throttled == Responded /\ resp'.status = 429

\* The request issued in this step is the one the last response answered,
\* sent again, no earlier than that response's retry_after after it.
RetriedInTime ==
    /\ req'.kind = resp.to.kind
    /\ req'.arg = resp.to.arg
    /\ req'.at >= resp.at + resp.retry_after

\* C8: a 429 with retry_after = R adds exactly 1 to the throttle-event count
\* and exactly R to the cumulative throttle time, and the next request is the
\* same request (same cursor, same message id), issued no earlier than R
\* after the 429 was received.
C8_ThrottleCountedAndRetried ==
    [][ /\ Throttled =>
             /\ stats'.throttledCount = stats.throttledCount + 1
             /\ stats'.throttledTotalTime = stats.throttledTotalTime + resp'.retry_after
             /\ call' = call
             /\ beforeMessageId' = beforeMessageId
        /\ Issued /\ resp.status = 429 => RetriedInTime ]_vars

\* A deletion was answered 429 with a short retry_after and has been retried.
C8_Witness ==
    /\ pc = "fetch"
    /\ resp.status = 429
    /\ resp.retry_after < rateLimit
    /\ req.kind = "delete"
    /\ req.at >= resp.at + resp.retry_after
    /\ stats.throttledCount = 1

\* C9: a 202 on a search changes no counter of the statistics and not the
\* cursor, and the next request is the same search, issued no earlier than
\* retry_after after the 202 was received.
C9_NotIndexedIsNotThrottle ==
    [][ /\ Responded /\ resp'.status = 202 /\ resp'.to.kind = "search" =>
             /\ stats' = stats
             /\ beforeMessageId' = beforeMessageId
             /\ call' = call
             /\ pc' = "retry"
        /\ Issued /\ resp.status = 202 /\ resp.to.kind = "search" => RetriedInTime ]_vars

\* A search was answered 202 and has been retried.
C9_Witness ==
    /\ pc = "fetch"
    /\ resp.status = 202
    /\ req.kind = "search"
    /\ nReq = 2
    /\ stats.throttledCount = 0

\* C10: a deletion answered k times 429 and then with success adds 1 to the
\* deleted count, nothing to the failed count and k to the throttle count,
\* has exactly one backup record and leaves the cursor at the message; and a
\* 202 or 429, on a search or a deletion, never adds to the failed count and
\* never ends the run.
C10_TransientIsNotFailure ==
    [][ /\ Responded /\ pc' = "delayDelete" =>
             /\ stats'.delCount = att.del + 1
             /\ stats'.failCount = att.fail
             /\ stats'.throttledCount = att.thr + (nReq - att.nreq - 1)
             /\ Len(backup') = att.bak + 1
             /\ backup'[Len(backup')] = att.id
             /\ beforeMessageId' = att.id
        /\ Responded /\ resp'.status \in {202, 429} =>
             /\ stats'.failCount = stats.failCount
             /\ errorLog' = errorLog
             /\ fatal' = FALSE /\ summaries' = summaries
             /\ pc' \in {"retry", "delayDelete"} ]_vars

\* A deletion has succeeded after two 429 answers.
C10_Witness ==
    /\ pc = "delayDelete"
    /\ stats.throttledCount = att.thr + 2
    /\ stats.delCount = att.del + 1
    /\ beforeMessageId = att.id

\* C11 as stated: whatever the searches return and the deletions answer,
\* the run leaves the while loop.  The loop decides from delCount,
\* grandTotal and the cursor alone, and the server may answer an iteration
\* as it answered the one before; so if every run is to leave the loop, no
\* iteration may begin with the very values the previous one began with.
C11_EveryIterationProgresses ==
    [][ head'.iteration > head.iteration /\ head.iteration >= 1 =>
          <<head'.delCount, head'.grandTotal, head'.cursor>>
            # <<head.delCount, head.grandTotal, head.cursor>> ]_vars

\* A successful search that reports no result is received in this step.
NothingFound ==
    /\ Responded
    /\ resp'.to.kind = "search"
    /\ resp'.status = 200
    /\ resp'.total = 0

\* C12: a search reporting total_results = 0 ends the loop without a message
\* of that result being backed up or deleted; once delCount >= grandTotal is
\* read at line 259 the loop ends; and after either, the summary is emitted
\* and no search (no request at all) is issued any more.
C12_LoopEnds ==
    [][ /\ NothingFound =>
             /\ backup' = backup /\ att' = att /\ nReq' = nReq
             /\ summaries' = summaries + 1
             /\ pc' = "draining"
        /\ pc = "delaySearch" /\ stats.delCount >= stats.grandTotal /\ ~interrupted' =>
             /\ summaries' = summaries + 1
             /\ nReq' = nReq
             /\ pc' = "draining"
        /\ Issued /\ req'.kind = "search" /\ stats.grandTotal > 0 =>
             stats.delCount < stats.grandTotal
        /\ pc = "draining" => nReq' = nReq /\ backup' = backup ]_vars

\* After one deletion of two, a search reported no result although its page
\* held a deletable message: the loop ended and nothing more was backed up.
C12_Witness ==
    /\ pc = "draining"
    /\ resp.status = 200 /\ resp.total = 0 /\ resp.hits > 0
    /\ stats.delCount = 1 /\ stats.grandTotal = 2
    /\ Len(backup) = 1
    /\ summaries = 1

\* The places where the run is suspended: the gate's wait, a retry-after
\* wait, the two fixed delays, a request in flight.
Suspended == {"gate", "retry", "delayDelete", "delaySearch", "fetch"}

\* C13: SIGINT can be handled wherever the run is suspended; its handler
\* emits the summary with the counters as they are at that moment and ends
\* the process; afterwards no request is issued and no counter changes.
C13_InterruptionSummarises ==
    [][ /\ pc \in Suspended => ENABLED Interrupt
        /\ interrupted' /\ ~interrupted =>
             /\ summaries' = summaries + 1
             /\ printed' = [deleted |-> stats.delCount, failed |-> stats.failCount,
                            throttled |-> stats.throttledCount,
                            throttledTime |-> stats.throttledTotalTime]
             /\ stats' = stats /\ nReq' = nReq /\ backup' = backup
             /\ pc' = "exited"
        /\ interrupted => UNCHANGED <<stats, nReq, req, backup, summaries, printed>> ]_vars

\* SIGINT arrived during a timed wait, after a deletion and a 429: the
\* summary reports both and the wait was abandoned.
C13_Witness ==
    /\ interrupted /\ pc = "exited"
    /\ waitUntil > now
    /\ printed.deleted = 1 /\ printed.throttled = 1
    /\ printed.throttledTime = stats.throttledTotalTime
    /\ summaries = 1

\* C14: the max_id of a search is the id of the message most recently
\* deleted with success, or the configured starting value (or none) while
\* nothing has been deleted; failed deletions and skipped messages do not
\* move the cursor.
C14_CursorIsLastDeleted ==
    LET expected == IF deleted # <<>> THEN deleted[Len(deleted)]
                    ELSE IF "DISCORD_BEFORE_MESSAGE_ID" \in env THEN StartCursor
                    ELSE NoId
    IN  /\ req.kind = "search" => req.arg = expected
        /\ pc # "init" => beforeMessageId = expected

\* After message 1 was deleted and the deletion of another failed, the next
\* search carries max_id = 1.
C14_Witness ==
    /\ pc = "fetch"
    /\ req.kind = "search" /\ req.arg = 1
    /\ deleted = <<1>>
    /\ stats.failCount = 1
    /\ Len(backup) = 2 /\ backup[2] # 1

\* A DELETE is answered with success in this step.
DeleteSucceeds ==
    /\ Responded
    /\ resp'.to.kind = "delete"
    /\ resp'.status \in 200..299

\* C15 as stated: every value assigned to the cursor is an older (smaller)
\* message id than the value the cursor had.
C15_CursorMovesBackward ==
    [][ beforeMessageId' # beforeMessageId /\ beforeMessageId # NoId =>
          beforeMessageId' < beforeMessageId ]_vars

\* C15 as amended: every successful deletion assigns the id of the deleted
\* message to the cursor, whether older or newer than the value it had, and
\* nothing else assigns it once the run has started.
C15_CursorFollowsDeletions ==
    [][ /\ DeleteSucceeds => beforeMessageId' = resp'.to.arg
        /\ beforeMessageId' # beforeMessageId /\ pc # "init" => DeleteSucceeds ]_vars

\* A page listed message 1 before message 2: the cursor went from 1 to 2.
C15_Witness ==
    /\ deleted = <<1, 2>>
    /\ beforeMessageId = 2
    /\ pc = "delayDelete"

\* A successful search is answered in this step.
SearchSucceeds ==
    /\ Responded
    /\ resp'.to.kind = "search"
    /\ resp'.status = 200

\* C16: grandTotal is set by the first search result whose total_results is
\* not 0, by nothing else, and no later search result changes it.
C16_GrandTotalLatchedOnce ==
    [][ /\ stats.grandTotal # 0 => stats'.grandTotal = stats.grandTotal
        /\ stats.grandTotal = 0 /\ SearchSucceeds => stats'.grandTotal = resp'.total
        /\ stats'.grandTotal # stats.grandTotal => SearchSucceeds ]_vars

\* A later search reported another total than the one latched.
C16_Witness ==
    /\ resp.to.kind = "search" /\ resp.status = 200
    /\ stats.grandTotal = 2
    /\ resp.total = 1
    /\ nReq >= 2

\* C17: search and delete share one clock: a request is issued at the time
\* recorded in lastApiCall, which is the time after the gate's wait, and at
\* least rateLimit after the request before it, whatever the two requests are.
C17_RateLimitGate ==
    [][ Issued =>
          /\ lastApiCall' = now'
          /\ req'.at = lastApiCall'
          /\ nReq >= 1 => req'.at - req.at >= rateLimit ]_vars

\* A DELETE was issued exactly rateLimit after the search before it: the
\* gate made it wait.
C17_Witness ==
    /\ pc = "fetch"
    /\ req.kind = "delete"
    /\ resp.to.kind = "search"
    /\ req.at - resp.to.at = rateLimit
    /\ req.at > resp.at

\* C18 as stated: delCount never exceeds grandTotal, and whenever the
\* progress figure (delCount + 1) / grandTotal is computed for a message,
\* grandTotal is not 0 and the figure is at most 100%.
C18_ProgressWithinTotal ==
    /\ stats.delCount <= stats.grandTotal
    /\ att.id # NoId => stats.grandTotal > 0 /\ att.del + 1 <= stats.grandTotal

\* C18 as amended: grandTotal is not 0 when the progress figure is computed,
\* and delCount is below grandTotal whenever the walk of a page begins, so
\* the figure is at most 100% for the first message deleted of each page;
\* the later messages of the page are attempted whatever delCount has become.
C18_ProgressAtPageStart ==
    [][ /\ att' # att => stats'.grandTotal > 0
        /\ SearchSucceeds /\ resp'.total # 0 => stats'.delCount < stats'.grandTotal
        /\ SearchSucceeds /\ att' # att => att'.del + 1 <= stats'.grandTotal
        /\ ~SearchSucceeds /\ att' # att /\ rest # <<>> =>
             att'.id = Head(rest).id ]_vars

\* A page held two deletable messages while total_results was 1: both were
\* deleted, the second at "200% (2/1)".
C18_Witness ==
    /\ stats.grandTotal = 1
    /\ stats.delCount = 2
    /\ att.del + 1 = 2

\* C19: when no deletion is in progress (between messages, between pages,
\* when the loop has ended) there are as many backup records as deletions
\* counted as deleted or failed, and delCount is the number of DELETE
\* requests answered with success.
C19_Accounting ==
    call.kind # "delete" \/ pc = "delayDelete" =>
        /\ Len(backup) = stats.delCount + stats.failCount
        /\ stats.delCount = Len(deleted)

\* The loop has ended after one deletion and one failure.
C19_Witness ==
    /\ pc = "draining"
    /\ stats.delCount = 1 /\ stats.failCount = 1
    /\ Len(backup) = 2
    /\ summaries = 1

\* C20 as stated: the summary is emitted exactly once per session on every
\* termination path: never twice, and once by the time the process has ended.
C20_SummaryOnce ==
    /\ summaries <= 1
    /\ pc = "exited" => summaries = 1

====
